---- MODULE Spec2Model ----
(***************************************************************************)
(* Model of plugins/telnyx-voice/whisper-server.py: a persistent whisper   *)
(* transcription server.  main() loads the model, run_on_unix_socket()     *)
(* prepares the filesystem artifacts and the listening socket, installs    *)
(* the signal handlers and serves the Flask handlers health() and          *)
(* transcribe(); transcribe() funnels every model call through model_lock. *)
(*                                                                         *)
(* The specifications:                                                     *)
(*   Spec         the whole process: startup, signals, concurrent requests *)
(*   SpecEnv      Spec with artifacts that another process may remove      *)
(*   SpecLive     Spec without signals, with fair scheduling               *)
(*   SpecHandler  the two Flask handlers driven directly on the module     *)
(*                globals (model starts as None, line 31, and is assigned  *)
(*                once, line 193), over every payload of the bounds        *)
(*   SpecResample the fallback of resample() over lengths and rates        *)
(*   SpecUnit     resample() and transcribe() exercised side by side       *)
(***************************************************************************)
EXTENDS Integers, Sequences, FiniteSets, TLC

(* ------------------------------ bounds --------------------------------- *)

\* number of concurrent request threads
NumReq == 2

\* largest number of frames held by a WAV payload
MaxFrames == 2

\* largest buffer length given to resample() in SpecResample
MaxLen == 6

(* ---------------------------- constants -------------------------------- *)

\* the rate faster-whisper expects (lines 103-105)
TargetRate == 16000

\* frame rates a WAV header may carry; the wave reader does not reject 0
Rates == {0, 8000, 16000, 48000}

\* rates for the pure resample() check; target/source spans [0.1, 10].
\* For these rates and the lengths of the bounds, int(len * (to / from))
\* and floor(i / (to / from)) evaluated in double precision equal the exact
\* floor(len * to / from) and floor(i * from / to).
PosRates == {1600, 8000, 16000, 48000, 160000}

Threads == 1..NumReq

Signals == {"SIGTERM", "SIGINT"}

VARIABLES
    mainPc,      \* position of the main thread in main()/run_on_unix_socket()
    model,       \* the module global `model`: "None" or "loaded"
    sockExists,  \* the socket file exists on the filesystem
    sockMode,    \* permissions of the socket file: "none", "umask", "0660"
    pidfile,     \* --pidfile was given
    pidExists,   \* the pid file exists on the filesystem
    handlers,    \* signals for which handle_sigterm is installed
    sig,         \* the termination signal that ended the process, or "none"
    exitCode,    \* exit code of the process, -1 while it runs
    model_lock,  \* 0 when free, else the thread that holds it
    req,         \* per thread: the request it is serving
    healthResp,  \* the last GET /health answer: its status (0 before the
                 \* first) and the value of `model` the handler found
    rs,          \* a direct call resample(samples, from, to) and its result
    hist         \* observations: the socket file existed at startup, and
                 \* which artifacts existed when handle_sigterm was entered

vars == <<mainPc, model, sockExists, sockMode, pidfile, pidExists, handlers,
          sig, exitCode, model_lock, req, healthResp, rs, hist>>

lifecycle == <<mainPc, model, sockExists, sockMode, pidfile, pidExists,
               handlers, sig, exitCode>>

(* ------------------------------ payloads ------------------------------- *)

EmptyPayload == [kind |-> "empty", framerate |-> 0, nframes |-> 0, sampwidth |-> 0]

MalformedPayload == [kind |-> "malformed", framerate |-> 0, nframes |-> 0, sampwidth |-> 0]

Wav(rate, n, sw) == [kind |-> "wav", framerate |-> rate, nframes |-> n, sampwidth |-> sw]

\* every request body within the bounds: empty, not a WAV container, or a
\* well-formed mono PCM container (8 or 16 bit) with 0..MaxFrames frames
Payloads ==
    {EmptyPayload, MalformedPayload}
      \cup {Wav(r, n, sw) : r \in Rates, n \in 0..MaxFrames, sw \in {1, 2}}

\* one payload per path of transcribe(), used by the concurrent specification
ServerPayloads ==
    {EmptyPayload, MalformedPayload, Wav(16000, 1, 2), Wav(8000, 1, 2), Wav(16000, 0, 2)}

(* ----------------------------- responses ------------------------------- *)

NoResp == [status |-> 0, body |-> "none", msg |-> ""]

RespNotLoaded == [status |-> 503, body |-> "json_error", msg |-> "model not loaded"]

RespNoAudio == [status |-> 400, body |-> "json_error", msg |-> "no audio data"]

RespBadAudio == [status |-> 400, body |-> "json_error", msg |-> "failed to read audio: "]

RespOk == [status |-> 200, body |-> "json_text", msg |-> ""]

\* an exception that leaves transcribe(): the handler built no response and
\* the framework answers with its generic server error
Unhandled(where) == [status |-> 500, body |-> "unhandled", msg |-> where]

IdleReq ==
    [pc |-> "Idle", payload |-> EmptyPayload, len |-> 0, rate |-> 0,
     resp |-> NoResp, decoderRun |-> FALSE, resampleRun |-> FALSE,
     lockTaken |-> FALSE, modelRun |-> FALSE]

(* --------------------------- pure functions ---------------------------- *)

\* read_wav_bytes: wave.open raises on bytes that are not a WAV container
\* (the empty string included); np.frombuffer(raw, int16) raises when the
\* byte count is odd; otherwise one sample per two bytes of frame data
read_wav_bytes(p) ==
    IF p.kind # "wav"
    THEN [ok |-> FALSE, len |-> 0, rate |-> 0]
    ELSE IF (p.nframes * p.sampwidth) % 2 = 1
         THEN [ok |-> FALSE, len |-> 0, rate |-> 0]
         ELSE [ok |-> TRUE, len |-> (p.nframes * p.sampwidth) \div 2,
               rate |-> p.framerate]

\* lines 68-69: ratio = to_rate / from_rate; n_out = int(len(samples) * ratio)
n_out(len, from_rate, to_rate) == (len * to_rate) \div from_rate

\* lines 70-71: indices = arange(n_out) / ratio; left = floor(indices)
left_index(i, from_rate, to_rate) == (i * from_rate) \div to_rate

\* right_index without the clamp of np.minimum
right_index_unclamped(left, len) == left + 1

\* line 72: right = minimum(left + 1, len(samples) - 1)
right_index(left, len) == IF left + 1 < len - 1 THEN left + 1 ELSE len - 1

\* the index pairs read at line 74, one per output sample
indices(len, from_rate, to_rate) ==
    [k \in 1..n_out(len, from_rate, to_rate) |->
        LET l == left_index(k - 1, from_rate, to_rate)
        IN [left |-> l, right |-> right_index(l, len)]]

\* samples[i] on an array of length len: numpy raises IndexError outside
InRange(i, len) == -len <= i /\ i < len

\* resample without the shortcut of lines 61-62
resample_noShortcut(len, from_rate, to_rate, soxr) ==
    IF from_rate = 0
    THEN {[ok |-> FALSE, len |-> 0, same |-> FALSE, idx |-> <<>>]}
    ELSE IF soxr
         THEN {[ok |-> TRUE, len |-> (len * to_rate) \div from_rate,
                same |-> FALSE, idx |-> <<>>]}
         ELSE {[ok |-> TRUE, len |-> n_out(len, from_rate, to_rate),
                same |-> FALSE, idx |-> indices(len, from_rate, to_rate)]}

\* the outcomes of resample(samples, from_rate, to_rate) for a buffer of
\* length len: equal rates return the input itself (same); soxr is an
\* external resampler (its output length is either rounding of the exact
\* ratio); the fallback is the linear interpolation, which raises when an
\* index is out of range; both raise on from_rate = 0
resample(len, from_rate, to_rate, soxr) ==
    IF from_rate = to_rate
    THEN {[ok |-> TRUE, len |-> len, same |-> TRUE, idx |-> <<>>]}
    ELSE IF from_rate = 0
         THEN {[ok |-> FALSE, len |-> 0, same |-> FALSE, idx |-> <<>>]}
         ELSE IF soxr
              THEN {[ok |-> TRUE, len |-> (len * to_rate) \div from_rate,
                     same |-> FALSE, idx |-> <<>>],
                    [ok |-> TRUE,
                     len |-> (len * to_rate + from_rate - 1) \div from_rate,
                     same |-> FALSE, idx |-> <<>>]}
              ELSE LET idx == indices(len, from_rate, to_rate)
                       ok == \A k \in DOMAIN idx :
                                /\ InRange(idx[k].left, len)
                                /\ InRange(idx[k].right, len)
                   IN {[ok |-> ok,
                        len |-> IF ok THEN n_out(len, from_rate, to_rate) ELSE 0,
                        same |-> FALSE, idx |-> idx]}

health_swapped(m) == IF m = "None" THEN 200 ELSE 503

\* health(): lines 79-81
health(m) == IF m = "None" THEN 503 ELSE 200

(* ------------------------------- Init ---------------------------------- *)

NoHealth == [status |-> 0, model |-> "None"]

NoCall ==
    [st |-> "none", len |-> 0, from |-> 0, to |-> 0, soxr |-> FALSE,
     out |-> 0, ok |-> TRUE, same |-> FALSE, idx |-> <<>>]

Init ==
    /\ mainPc = "load"
    /\ model = "None"
    /\ sockExists \in BOOLEAN
    /\ sockMode = IF sockExists THEN "umask" ELSE "none"
    /\ pidfile \in BOOLEAN
    /\ pidExists \in BOOLEAN
    /\ handlers = {}
    /\ sig = "none"
    /\ exitCode = -1
    /\ model_lock = 0
    /\ req = [t \in Threads |-> IdleReq]
    /\ healthResp = NoHealth
    /\ rs = NoCall
    /\ hist = [stale |-> sockExists, sock |-> FALSE, pid |-> FALSE]

(* --------------------------- main lifecycle ---------------------------- *)

LoadModel_unassigned ==
    /\ mainPc = "load"
    /\ mainPc' = "unlink_stale"
    /\ UNCHANGED <<model, sockExists, sockMode, pidfile, pidExists, handlers,
                   sig, exitCode, model_lock, req, healthResp, rs, hist>>

\* line 193 / load_model: the model loads and the global is assigned
LoadModel ==
    /\ mainPc = "load"
    /\ model' = "loaded"
    /\ mainPc' = "unlink_stale"
    /\ UNCHANGED <<sockExists, sockMode, pidfile, pidExists, handlers, sig,
                   exitCode, model_lock, req, healthResp, rs, hist>>

\* load_model raising only after the pid file was written
LoadModelFails_afterPidfile ==
    /\ mainPc = "load"
    /\ mainPc' = "aborted"
    /\ exitCode' = 1
    /\ pidExists' = IF pidfile THEN TRUE ELSE pidExists
    /\ UNCHANGED <<model, sockExists, sockMode, pidfile, handlers,
                   sig, model_lock, req, healthResp, rs, hist>>

\* load_model raises: main() dies with the exception before line 194
LoadModelFails ==
    /\ mainPc = "load"
    /\ mainPc' = "aborted"
    /\ exitCode' = 1
    /\ UNCHANGED <<model, sockExists, sockMode, pidfile, pidExists, handlers,
                   sig, model_lock, req, healthResp, rs, hist>>

\* lines 127-130
UnlinkStale ==
    /\ mainPc = "unlink_stale"
    /\ sockExists' = FALSE
    /\ sockMode' = "none"
    /\ mainPc' = "write_pid"
    /\ UNCHANGED <<model, pidfile, pidExists, handlers, sig, exitCode,
                   model_lock, req, healthResp, rs, hist>>

\* lines 133-135
WritePidfile ==
    /\ mainPc = "write_pid"
    /\ pidExists' = IF pidfile THEN TRUE ELSE pidExists
    /\ mainPc' = "bind"
    /\ UNCHANGED <<model, sockExists, sockMode, pidfile, handlers, sig,
                   exitCode, model_lock, req, healthResp, rs, hist>>

\* lines 138-139
Bind ==
    /\ mainPc = "bind"
    /\ sockExists' = TRUE
    /\ sockMode' = "umask"
    /\ mainPc' = "chmod"
    /\ UNCHANGED <<model, pidfile, pidExists, handlers, sig, exitCode,
                   model_lock, req, healthResp, rs, hist>>

\* startup without the os.chmod of line 140
Chmod_skipped ==
    /\ mainPc = "chmod"
    /\ sockExists
    /\ mainPc' = "listen"
    /\ UNCHANGED <<model, sockExists, sockMode, pidfile, pidExists, handlers,
                   sig, exitCode, model_lock, req, healthResp, rs, hist>>

\* line 140
Chmod ==
    /\ mainPc = "chmod"
    /\ sockExists
    /\ sockMode' = "0660"
    /\ mainPc' = "listen"
    /\ UNCHANGED <<model, sockExists, pidfile, pidExists, handlers, sig,
                   exitCode, model_lock, req, healthResp, rs, hist>>

\* lines 141-143
Listen ==
    /\ mainPc = "listen"
    /\ mainPc' = "install_term"
    /\ UNCHANGED <<model, sockExists, sockMode, pidfile, pidExists, handlers,
                   sig, exitCode, model_lock, req, healthResp, rs, hist>>

\* line 159
InstallSigterm ==
    /\ mainPc = "install_term"
    /\ handlers' = handlers \cup {"SIGTERM"}
    /\ mainPc' = "install_int"
    /\ UNCHANGED <<model, sockExists, sockMode, pidfile, pidExists, sig,
                   exitCode, model_lock, req, healthResp, rs, hist>>

\* line 160
InstallSigint ==
    /\ mainPc = "install_int"
    /\ handlers' = handlers \cup {"SIGINT"}
    /\ mainPc' = "make_server"
    /\ UNCHANGED <<model, sockExists, sockMode, pidfile, pidExists, sig,
                   exitCode, model_lock, req, healthResp, rs, hist>>

\* lines 163-166: from here on connections are accepted
ServeForever ==
    /\ mainPc = "make_server"
    /\ mainPc' = "serve"
    /\ UNCHANGED <<model, sockExists, sockMode, pidfile, pidExists, handlers,
                   sig, exitCode, model_lock, req, healthResp, rs, hist>>

Running ==
    mainPc \in {"load", "unlink_stale", "write_pid", "bind", "chmod", "listen",
                "install_term", "install_int", "make_server", "serve"}

Terminated == mainPc \in {"aborted", "crashed", "killed", "exited"}

\* the socket is listening: listen() was called and the process is alive
Listening == mainPc \in {"install_term", "install_int", "make_server", "serve"}

\* handlers are dispatched: by serve_forever, or directly on the Flask app
Dispatching == mainPc \in {"serve", "wsgi"}

\* handle_sigterm waiting for the requests in flight to drain first
handle_sigterm_drain(s) ==
    /\ Running
    /\ s \in handlers
    /\ model_lock = 0
    /\ \A t \in Threads : req[t].pc = "Idle"
    /\ sockExists' = FALSE
    /\ sockMode' = "none"
    /\ pidExists' = IF pidfile THEN FALSE ELSE pidExists
    /\ sig' = s
    /\ exitCode' = 0
    /\ mainPc' = "exited"
    /\ hist' = [hist EXCEPT !.sock = sockExists, !.pid = pidExists]
    /\ UNCHANGED <<model, pidfile, handlers, model_lock, req, healthResp, rs>>

\* handle_sigterm without the two `except FileNotFoundError` clauses: a
\* missing artifact ends the handler with the exception
handle_sigterm_strict(s) ==
    /\ Running
    /\ s \in handlers
    /\ sockExists' = FALSE
    /\ sockMode' = "none"
    /\ pidExists' = IF pidfile /\ sockExists THEN FALSE ELSE pidExists
    /\ sig' = s
    /\ exitCode' = IF sockExists /\ (pidfile => pidExists) THEN 0 ELSE 1
    /\ mainPc' = "exited"
    /\ hist' = [hist EXCEPT !.sock = sockExists, !.pid = pidExists]
    /\ UNCHANGED <<model, pidfile, handlers, model_lock, req, healthResp, rs>>

\* lines 146-157: handle_sigterm removes both artifacts and exits with 0
handle_sigterm(s) ==
    /\ Running
    /\ s \in handlers
    /\ sockExists' = FALSE
    /\ sockMode' = "none"
    /\ pidExists' = IF pidfile THEN FALSE ELSE pidExists
    /\ sig' = s
    /\ exitCode' = 0
    /\ mainPc' = "exited"
    /\ hist' = [hist EXCEPT !.sock = sockExists, !.pid = pidExists]
    /\ UNCHANGED <<model, pidfile, handlers, model_lock, req, healthResp, rs>>

\* a termination signal before signal.signal() ran for it (lines 159-160):
\* the default disposition ends the process, nothing is cleaned up
DefaultSignal(s) ==
    /\ Running
    /\ s \notin handlers
    /\ sig' = s
    /\ exitCode' = IF s = "SIGTERM" THEN 143 ELSE 130
    /\ mainPc' = "killed"
    /\ UNCHANGED <<model, sockExists, sockMode, pidfile, pidExists, handlers,
                   model_lock, req, healthResp, rs, hist>>

(* ------------------------------ handlers ------------------------------- *)

\* GET /health, lines 77-81
Health ==
    /\ Dispatching
    /\ healthResp' = [status |-> health(model), model |-> model]
    /\ UNCHANGED <<lifecycle, model_lock, req, rs, hist>>

\* Receive without the model check of lines 86-87
Receive_noModelCheck(t, p) ==
    /\ Dispatching
    /\ req[t].pc = "Idle"
    /\ req' = [req EXCEPT ![t] =
                 [IdleReq EXCEPT !.pc = "Received", !.payload = p]]
    /\ UNCHANGED <<lifecycle, model_lock, healthResp, rs, hist>>

\* POST /transcribe, lines 86-93: a request is dispatched to thread t; the
\* model check comes first, then the payload is read
Receive(t, p) ==
    /\ Dispatching
    /\ req[t].pc = "Idle"
    /\ req' = [req EXCEPT ![t] =
                 IF model = "None"
                 THEN [IdleReq EXCEPT !.pc = "Failed", !.payload = p,
                                      !.resp = RespNotLoaded]
                 ELSE [IdleReq EXCEPT !.pc = "Received", !.payload = p]]
    /\ UNCHANGED <<lifecycle, model_lock, healthResp, rs, hist>>

\* Decode without the empty check of lines 95-96
Decode_noEmptyCheck(t) ==
    /\ Dispatching
    /\ req[t].pc = "Received"
    /\ LET r == read_wav_bytes(req[t].payload)
       IN req' = [req EXCEPT ![t] =
                    IF ~r.ok
                    THEN [@ EXCEPT !.pc = "Failed", !.decoderRun = TRUE,
                                   !.resp = RespBadAudio]
                    ELSE [@ EXCEPT !.pc = "Decoded", !.decoderRun = TRUE,
                                   !.len = r.len, !.rate = r.rate]]
    /\ UNCHANGED <<lifecycle, model_lock, healthResp, rs, hist>>

\* Decode with the try/except of lines 98-101 swallowing the error
Decode_swallowError(t) ==
    /\ Dispatching
    /\ req[t].pc = "Received"
    /\ LET p == req[t].payload
           r == read_wav_bytes(p)
       IN req' = [req EXCEPT ![t] =
                    IF p.kind = "empty"
                    THEN [@ EXCEPT !.pc = "Failed", !.resp = RespNoAudio]
                    ELSE [@ EXCEPT !.pc = "Decoded", !.decoderRun = TRUE,
                                   !.len = r.len, !.rate = r.rate]]
    /\ UNCHANGED <<lifecycle, model_lock, healthResp, rs, hist>>

\* lines 95-101: the empty check, then read_wav_bytes inside try/except
Decode(t) ==
    /\ Dispatching
    /\ req[t].pc = "Received"
    /\ LET p == req[t].payload
           r == read_wav_bytes(p)
       IN req' = [req EXCEPT ![t] =
                    IF p.kind = "empty"
                    THEN [@ EXCEPT !.pc = "Failed", !.resp = RespNoAudio]
                    ELSE IF ~r.ok
                         THEN [@ EXCEPT !.pc = "Failed", !.decoderRun = TRUE,
                                        !.resp = RespBadAudio]
                         ELSE [@ EXCEPT !.pc = "Decoded", !.decoderRun = TRUE,
                                        !.len = r.len, !.rate = r.rate]]
    /\ UNCHANGED <<lifecycle, model_lock, healthResp, rs, hist>>

\* lines 104-105: resample unless the rate is already 16000; resample is
\* called outside any try, so what it raises leaves transcribe()
ResampleStep(t) ==
    /\ Dispatching
    /\ req[t].pc = "Decoded"
    /\ IF req[t].rate # TargetRate
       THEN \E soxr \in BOOLEAN :
              \E out \in resample(req[t].len, req[t].rate, TargetRate, soxr) :
                req' = [req EXCEPT ![t] =
                          IF out.ok
                          THEN [@ EXCEPT !.pc = "Resampled", !.resampleRun = TRUE,
                                         !.len = out.len, !.rate = TargetRate]
                          ELSE [@ EXCEPT !.pc = "Failed", !.resampleRun = TRUE,
                                         !.resp = Unhandled("resample")]]
       ELSE req' = [req EXCEPT ![t].pc = "SkipResample"]
    /\ UNCHANGED <<lifecycle, model_lock, healthResp, rs, hist>>

\* Acquire without waiting for the lock to be free
Acquire_noWait(t) ==
    /\ Dispatching
    /\ req[t].pc \in {"Resampled", "SkipResample"}
    /\ model_lock' = t
    /\ req' = [req EXCEPT ![t].pc = "InModel", ![t].lockTaken = TRUE]
    /\ UNCHANGED <<lifecycle, healthResp, rs, hist>>

\* line 108: `with model_lock:` blocks while another thread holds the lock
Acquire(t) ==
    /\ Dispatching
    /\ req[t].pc \in {"Resampled", "SkipResample"}
    /\ model_lock = 0
    /\ model_lock' = t
    /\ req' = [req EXCEPT ![t].pc = "InModel", ![t].lockTaken = TRUE]
    /\ UNCHANGED <<lifecycle, healthResp, rs, hist>>

\* ModelCall with a plain acquire()/release() pair instead of `with`: an
\* exception skips the release
ModelCall_leak(t) ==
    /\ Dispatching
    /\ req[t].pc = "InModel"
    /\ \E ok \in BOOLEAN :
         req' = [req EXCEPT ![t] =
                   IF ok
                   THEN [@ EXCEPT !.pc = "Segments", !.modelRun = TRUE]
                   ELSE [@ EXCEPT !.pc = "Failed", !.modelRun = TRUE,
                                  !.resp = Unhandled("model")]]
    /\ UNCHANGED <<lifecycle, model_lock, healthResp, rs, hist>>

\* lines 109-118: model.transcribe(samples, ...) returns the lazy segments
\* or raises; an exception leaves the with block, which releases the lock
ModelCall(t) ==
    /\ Dispatching
    /\ req[t].pc = "InModel"
    /\ \E ok \in BOOLEAN :
         IF ok
         THEN /\ req' = [req EXCEPT ![t].pc = "Segments", ![t].modelRun = TRUE]
              /\ UNCHANGED model_lock
         ELSE /\ req' = [req EXCEPT ![t].pc = "Failed", ![t].modelRun = TRUE,
                                    ![t].resp = Unhandled("model")]
              /\ model_lock' = 0
    /\ UNCHANGED <<lifecycle, healthResp, rs, hist>>

\* Consume with the lock left held when the iteration over segments raises
Consume_leakOnError(t) ==
    /\ Dispatching
    /\ req[t].pc = "Segments"
    /\ \E ok \in BOOLEAN :
         IF ok
         THEN /\ req' = [req EXCEPT ![t].pc = "Transcribed"]
              /\ model_lock' = 0
         ELSE /\ req' = [req EXCEPT ![t].pc = "Failed",
                                    ![t].resp = Unhandled("model")]
              /\ UNCHANGED model_lock
    /\ UNCHANGED <<lifecycle, healthResp, rs, hist>>

\* Consume with the lock released only after the response was built
Consume_keepLock(t) ==
    /\ Dispatching
    /\ req[t].pc = "Segments"
    /\ \E ok \in BOOLEAN :
         IF ok
         THEN /\ req' = [req EXCEPT ![t].pc = "Transcribed"]
              /\ UNCHANGED model_lock
         ELSE /\ req' = [req EXCEPT ![t].pc = "Failed",
                                    ![t].resp = Unhandled("model")]
              /\ model_lock' = 0
    /\ UNCHANGED <<lifecycle, healthResp, rs, hist>>

\* line 119 and the end of the with block: the segments are consumed into
\* the transcript (or the iteration raises) and the lock is released
Consume(t) ==
    /\ Dispatching
    /\ req[t].pc = "Segments"
    /\ \E ok \in BOOLEAN :
         req' = [req EXCEPT ![t] =
                   IF ok
                   THEN [@ EXCEPT !.pc = "Transcribed"]
                   ELSE [@ EXCEPT !.pc = "Failed", !.resp = Unhandled("model")]]
    /\ model_lock' = 0
    /\ UNCHANGED <<lifecycle, healthResp, rs, hist>>

\* line 121
Respond(t) ==
    /\ Dispatching
    /\ req[t].pc = "Transcribed"
    /\ req' = [req EXCEPT ![t].pc = "Responded", ![t].resp = RespOk]
    /\ UNCHANGED <<lifecycle, model_lock, healthResp, rs, hist>>

\* the response is sent and the thread is ready for the next request
Finish(t) ==
    /\ Dispatching
    /\ req[t].pc \in {"Responded", "Failed"}
    /\ req' = [req EXCEPT ![t] = IdleReq]
    /\ UNCHANGED <<lifecycle, model_lock, healthResp, rs, hist>>

(* --------------------------- specifications ---------------------------- *)

Next ==
    \/ LoadModel
    \/ LoadModelFails
    \/ UnlinkStale
    \/ WritePidfile
    \/ Bind
    \/ Chmod
    \/ Listen
    \/ InstallSigterm
    \/ InstallSigint
    \/ ServeForever
    \/ \E s \in Signals : handle_sigterm(s)
    \/ \E s \in Signals : DefaultSignal(s)
    \/ Health
    \/ \E t \in Threads : \E p \in ServerPayloads : Receive(t, p)
    \/ \E t \in Threads : Decode(t)
    \/ \E t \in Threads : ResampleStep(t)
    \/ \E t \in Threads : Acquire(t)
    \/ \E t \in Threads : ModelCall(t)
    \/ \E t \in Threads : Consume(t)
    \/ \E t \in Threads : Respond(t)
    \/ \E t \in Threads : Finish(t)

Spec == Init /\ [][Next]_vars

\* the process without termination signals
NextLive ==
    \/ LoadModel
    \/ LoadModelFails
    \/ UnlinkStale
    \/ WritePidfile
    \/ Bind
    \/ Chmod
    \/ Listen
    \/ InstallSigterm
    \/ InstallSigint
    \/ ServeForever
    \/ \E t \in Threads : \E p \in ServerPayloads : Receive(t, p)
    \/ \E t \in Threads : Decode(t)
    \/ \E t \in Threads : ResampleStep(t)
    \/ \E t \in Threads : Acquire(t)
    \/ \E t \in Threads : ModelCall(t)
    \/ \E t \in Threads : Consume(t)
    \/ \E t \in Threads : Respond(t)
    \/ \E t \in Threads : Finish(t)

\* every thread keeps running, every model call returns or raises, and a
\* thread that can take the lock again and again eventually takes it
Fairness ==
    \A t \in Threads :
        /\ WF_vars(Decode(t))
        /\ WF_vars(ResampleStep(t))
        /\ SF_vars(Acquire(t))
        /\ WF_vars(ModelCall(t))
        /\ WF_vars(Consume(t))
        /\ WF_vars(Respond(t))

\* a start with --pidfile on a clean filesystem
InitLive == Init /\ ~sockExists /\ pidfile /\ ~pidExists

SpecLive == InitLive /\ [][NextLive]_vars /\ Fairness

\* the filesystem is shared: another process may remove an artifact
ExternalUnlink(f) ==
    /\ Running
    /\ \/ /\ f = "sock"
          /\ sockExists
          /\ sockExists' = FALSE
          /\ sockMode' = "none"
          /\ UNCHANGED pidExists
       \/ /\ f = "pid"
          /\ pidExists
          /\ pidExists' = FALSE
          /\ UNCHANGED <<sockExists, sockMode>>
    /\ UNCHANGED <<mainPc, model, pidfile, handlers, sig, exitCode, model_lock,
                   req, healthResp, rs, hist>>

\* line 140 when the socket file was removed after bind: os.chmod raises
ChmodFails ==
    /\ mainPc = "chmod"
    /\ ~sockExists
    /\ mainPc' = "crashed"
    /\ exitCode' = 1
    /\ UNCHANGED <<model, sockExists, sockMode, pidfile, pidExists, handlers,
                   sig, model_lock, req, healthResp, rs, hist>>

NextEnv ==
    \/ Next
    \/ \E f \in {"sock", "pid"} : ExternalUnlink(f)
    \/ ChmodFails

\* the whole process with artifacts that may disappear under it
SpecEnv == Init /\ [][NextEnv]_vars

\* the Flask app driven directly: the globals are as the module defines
\* them (model = None, line 31) and main's assignment may come at any time
InitHandler ==
    /\ mainPc = "wsgi"
    /\ model = "None"
    /\ sockExists = FALSE
    /\ sockMode = "none"
    /\ pidfile = FALSE
    /\ pidExists = FALSE
    /\ handlers = {}
    /\ sig = "none"
    /\ exitCode = -1
    /\ model_lock = 0
    /\ req = [t \in Threads |-> IdleReq]
    /\ healthResp = NoHealth
    /\ rs = NoCall
    /\ hist = [stale |-> sockExists, sock |-> FALSE, pid |-> FALSE]

\* line 193: the only assignment to the global `model`
AssignModel ==
    /\ mainPc = "wsgi"
    /\ model = "None"
    /\ model' = "loaded"
    /\ UNCHANGED <<mainPc, sockExists, sockMode, pidfile, pidExists, handlers,
                   sig, exitCode, model_lock, req, healthResp, rs, hist>>

NextHandler ==
    \/ AssignModel
    \/ Health
    \/ \E p \in Payloads : Receive(1, p)
    \/ Decode(1)
    \/ ResampleStep(1)
    \/ Acquire(1)
    \/ ModelCall(1)
    \/ Consume(1)
    \/ Respond(1)
    \/ Finish(1)

SpecHandler == InitHandler /\ [][NextHandler]_vars

\* resample(samples, from_rate, to_rate) with soxr missing, on its own
InitResample ==
    /\ mainPc = "resample"
    /\ model = "None"
    /\ sockExists = FALSE
    /\ sockMode = "none"
    /\ pidfile = FALSE
    /\ pidExists = FALSE
    /\ handlers = {}
    /\ sig = "none"
    /\ exitCode = -1
    /\ model_lock = 0
    /\ req = [t \in Threads |-> IdleReq]
    /\ healthResp = NoHealth
    /\ hist = [stale |-> FALSE, sock |-> FALSE, pid |-> FALSE]
    /\ \E len \in 0..MaxLen : \E from \in PosRates : \E to \in PosRates :
         rs = [NoCall EXCEPT !.st = "call", !.len = len, !.from = from,
                             !.to = to]

\* resample(samples, from_rate, to_rate) is called and returns or raises
CallResample ==
    /\ rs.st = "call"
    /\ \E out \in resample(rs.len, rs.from, rs.to, rs.soxr) :
         rs' = [rs EXCEPT !.st = "done", !.out = out.len, !.ok = out.ok,
                          !.same = out.same, !.idx = out.idx]
    /\ UNCHANGED <<lifecycle, model_lock, req, healthResp, hist>>

NextResample == CallResample

SpecResample == InitResample /\ [][NextResample]_vars

\* the functions of the module exercised side by side: resample() called
\* directly (with or without soxr) and transcribe() driven on the Flask app
\* with the model loaded
InitUnit ==
    /\ mainPc = "wsgi"
    /\ model = "loaded"
    /\ sockExists = FALSE
    /\ sockMode = "none"
    /\ pidfile = FALSE
    /\ pidExists = FALSE
    /\ handlers = {}
    /\ sig = "none"
    /\ exitCode = -1
    /\ model_lock = 0
    /\ req = [t \in Threads |-> IdleReq]
    /\ healthResp = NoHealth
    /\ hist = [stale |-> FALSE, sock |-> FALSE, pid |-> FALSE]
    /\ \E len \in 0..MaxLen : \E from \in Rates \ {0} : \E to \in Rates \ {0} :
         \E soxr \in BOOLEAN :
           rs = [NoCall EXCEPT !.st = "call", !.len = len, !.from = from,
                               !.to = to, !.soxr = soxr]

NextUnit ==
    \/ CallResample
    \/ \E p \in Payloads : Receive(1, p)
    \/ Decode(1)
    \/ ResampleStep(1)
    \/ Acquire(1)
    \/ ModelCall(1)
    \/ Consume(1)
    \/ Respond(1)
    \/ Finish(1)

SpecUnit == InitUnit /\ [][NextUnit]_vars

(* ------------------------------- claims -------------------------------- *)

\* the threads inside the model critical section (lines 109-119)
InSection == {t \in Threads : req[t].pc \in {"InModel", "Segments"}}

\* the threads blocked at `with model_lock:` or about to reach it
AtLock == {t \in Threads : req[t].pc \in {"Resampled", "SkipResample"}}

\* the request of thread t was received with the model loaded
Served(t) == req[t].pc # "Idle" /\ req[t].resp # RespNotLoaded

\* C1: at most one request at a time is inside the model critical section,
\* and a request enters it only when no other request is inside
C1_MutualExclusion ==
    /\ [](Cardinality(InSection) <= 1)
    /\ [][\A t \in Threads :
            (t \notin InSection /\ t \in InSection') => InSection = {}]_vars

\* one request inside the section while another one stands at the lock
C1_Witness ==
    \E t \in InSection : \E u \in AtLock : t # u /\ model_lock = t

\* C2: after a termination signal ended the process, neither the socket
\* file nor the configured pid file exists
C2_ArtifactsGone ==
    (sig # "none" /\ Terminated) =>
        (~sockExists /\ (pidfile => ~pidExists))

\* C3: whenever the socket is listening or a request is being served the
\* model is loaded, and a loaded model is never reassigned
C3_ModelLoadedOnce ==
    /\ []((Listening \/ \E t \in Threads : req[t].pc # "Idle")
            => model = "loaded")
    /\ [][model = "loaded" => model' = "loaded"]_vars

\* a request was accepted and answered by the running server
C3_Witness ==
    mainPc = "serve" /\ \E t \in Threads : req[t].pc = "Responded"

\* C4: /health answers 503 exactly when it finds the model not loaded and
\* 200 exactly when it finds it loaded, and after a 200 it never answers 503
C4_HealthMonotone ==
    /\ [](healthResp.status # 0 =>
            /\ (healthResp.status = 503 <=> healthResp.model = "None")
            /\ (healthResp.status = 200 <=> healthResp.model = "loaded"))
    /\ [][healthResp.status = 200 => healthResp'.status = 200]_vars

\* /health answered 200 on a model that was loaded after the app came up
C4_Witness ==
    mainPc = "wsgi" /\ healthResp.status = 200 /\ model = "loaded"

\* C5: with the model loaded, an empty payload is answered 400 "no audio
\* data"; the decoder is never run on it and it never takes the model lock
C5_EmptyPayload ==
    \A t \in Threads :
        (Served(t) /\ req[t].payload.kind = "empty") =>
            /\ req[t].pc \in {"Received", "Failed"}
            /\ req[t].pc = "Failed" => req[t].resp = RespNoAudio
            /\ ~req[t].decoderRun
            /\ ~req[t].lockTaken

\* an empty payload was answered
C5_Witness ==
    \E t \in Threads :
        /\ req[t].payload.kind = "empty"
        /\ req[t].pc = "Failed"
        /\ req[t].resp = RespNoAudio

\* C6: with the model loaded, a non-empty payload that fails WAV decoding
\* is answered 400 "failed to read audio: ..."; resample is never run, the
\* lock is never taken and the model is never invoked for it
C6_DecodeFailure ==
    \A t \in Threads :
        (/\ Served(t)
         /\ req[t].payload.kind # "empty"
         /\ ~read_wav_bytes(req[t].payload).ok) =>
            /\ req[t].pc \in {"Received", "Failed"}
            /\ req[t].pc = "Failed" => req[t].resp = RespBadAudio
            /\ ~req[t].resampleRun
            /\ ~req[t].lockTaken
            /\ ~req[t].modelRun

\* an 8-bit container with an odd byte count failed in the decoder
C6_Witness ==
    \E t \in Threads :
        /\ req[t].payload.kind = "wav"
        /\ req[t].payload.sampwidth = 1
        /\ req[t].decoderRun
        /\ req[t].pc = "Failed"
        /\ req[t].resp = RespBadAudio

\* C7: every failure response of /transcribe is a JSON object with an
\* error field, also when resample or the model call raises
C7_FailuresAreJson ==
    \A t \in Threads :
        req[t].pc = "Failed" => req[t].resp.body = "json_error"

\* C8: every buffer passed to the model has length > 0, for every decodable
\* payload with a positive sample rate
C8_NonEmptyToModel ==
    \A t \in Threads :
        (req[t].modelRun /\ req[t].payload.framerate > 0) => req[t].len > 0

\* C9: a well-formed container with zero frames fails in the decoder and is
\* answered 400 "failed to read audio", never reaching the model
C9_ZeroFramesRejected ==
    \A t \in Threads :
        (/\ req[t].payload.kind = "wav"
         /\ req[t].payload.nframes = 0
         /\ req[t].decoderRun) =>
            (req[t].pc = "Failed" /\ req[t].resp = RespBadAudio)

\* C10: the fallback resampler returns a buffer of length
\* round(len * target / source): an integer nearest to the exact quotient
C10_RoundedLength ==
    rs.st = "done" =>
        LET d == rs.out * rs.from - rs.len * rs.to
        IN 2 * (IF d < 0 THEN -d ELSE d) <= rs.from

\* C11: resample with equal rates returns its input unchanged; transcribe
\* passes the decoded buffer to the model without calling resample exactly
\* when the decoded rate is 16000, else it passes the result of resampling
\* the decoded buffer to 16000
C11_ResampleOnlyWhenNeeded ==
    /\ (rs.st = "done" /\ rs.from = rs.to) =>
          (rs.ok /\ rs.same /\ rs.out = rs.len)
    /\ \A t \in Threads :
          req[t].pc \in {"Resampled", "SkipResample", "InModel", "Segments",
                         "Transcribed", "Responded"} =>
             LET d == read_wav_bytes(req[t].payload)
             IN IF d.rate = TargetRate
                THEN ~req[t].resampleRun /\ req[t].len = d.len
                ELSE /\ req[t].resampleRun
                     /\ \E soxr \in BOOLEAN :
                          \E out \in resample(d.len, d.rate, TargetRate, soxr) :
                            out.ok /\ ~out.same /\ out.len = req[t].len

\* resample returned on equal rates, and a request whose buffer went
\* through resample reached the model
C11_Witness ==
    /\ rs.st = "done" /\ rs.from = rs.to /\ rs.len > 0
    /\ \E t \in Threads :
         req[t].modelRun /\ req[t].resampleRun /\ req[t].payload.nframes > 0

\* C12: once both handlers are installed, a termination signal ends the
\* process with exit code 0 and with both artifacts removed, whichever of
\* them existed when the signal arrived
C12_SignalExitsZero ==
    [][(handlers = Signals /\ sig = "none" /\ sig' # "none") =>
          /\ mainPc' = "exited"
          /\ exitCode' = 0
          /\ ~sockExists'
          /\ pidfile => ~pidExists']_vars

\* the signal was handled with a pid file configured and both artifacts
\* already missing
C12_Witness ==
    /\ mainPc = "exited" /\ exitCode = 0
    /\ pidfile /\ ~hist.sock /\ ~hist.pid

\* C13: when load_model fails the process aborts before anything of
\* run_on_unix_socket ran: no artifact is created or removed, the socket is
\* never bound or listening and no request is ever accepted
C13_LoadFailureAborts ==
    /\ [](mainPc = "aborted" =>
            /\ model = "None"
            /\ handlers = {}
            /\ sockExists = hist.stale
            /\ sockMode # "0660"
            /\ healthResp = NoHealth
            /\ \A t \in Threads : req[t] = IdleReq)
    /\ [][mainPc' = "aborted" =>
            /\ mainPc \in {"load", "aborted"}
            /\ sockExists' = sockExists
            /\ pidExists' = pidExists]_vars

\* the load failed with a pid file configured and no artifact on disk
C13_Witness ==
    mainPc = "aborted" /\ exitCode = 1 /\ pidfile /\ ~pidExists /\ ~sockExists

\* C14: whenever the socket is listening its file exists with mode 0660,
\* and bind always finds the path free because startup removed a stale file
C14_SocketMode ==
    /\ Listening => (sockExists /\ sockMode = "0660")
    /\ mainPc = "bind" => ~sockExists

\* the server is listening after a start that found a stale socket file
C14_Witness ==
    Listening /\ hist.stale /\ sockMode = "0660"

\* C15: while the model is not loaded every POST /transcribe is answered
\* 503 "model not loaded" whatever its payload, before the payload is read,
\* checked or decoded and without taking the model lock
C15_NotLoaded ==
    /\ [][\A t \in Threads :
            (model = "None" /\ req[t].pc = "Idle" /\ req'[t].pc # "Idle") =>
               (req'[t].pc = "Failed" /\ req'[t].resp = RespNotLoaded)]_vars
    /\ [](\A t \in Threads :
            req[t].resp = RespNotLoaded =>
               /\ req[t].pc = "Failed"
               /\ ~req[t].decoderRun
               /\ ~req[t].resampleRun
               /\ ~req[t].lockTaken
               /\ ~req[t].modelRun
               /\ model_lock # t)

\* a valid WAV was answered 503 while the model was not loaded
C15_Witness ==
    \E t \in Threads :
        /\ model = "None"
        /\ req[t].resp = RespNotLoaded
        /\ req[t].payload = Wav(16000, 1, 2)

\* the steps a request may take; InModel and Segments are the two halves of
\* the transcription step
RequestEdges ==
    {<<"Idle", "Received">>, <<"Idle", "Failed">>,
     <<"Received", "Decoded">>, <<"Received", "Failed">>,
     <<"Decoded", "Resampled">>, <<"Decoded", "SkipResample">>,
     <<"Decoded", "Failed">>,
     <<"Resampled", "InModel">>, <<"SkipResample", "InModel">>,
     <<"InModel", "Segments">>, <<"InModel", "Failed">>,
     <<"Segments", "Transcribed">>, <<"Segments", "Failed">>,
     <<"Transcribed", "Responded">>,
     <<"Responded", "Idle">>, <<"Failed", "Idle">>}

\* C16: a request moves only Received, Decoded, Resampled or SkipResample,
\* transcription, Responded, or leaves early to Failed; the model lock is
\* held only during the transcription step, and a request that failed
\* before it never took the lock
C16_RequestOrder ==
    /\ [][\A t \in Threads :
            req'[t].pc # req[t].pc =>
               <<req[t].pc, req'[t].pc>> \in RequestEdges]_vars
    /\ [](\A t \in Threads :
            /\ model_lock = t => req[t].pc \in {"InModel", "Segments"}
            /\ req[t].pc \in {"Received", "Decoded", "Resampled",
                              "SkipResample"} => ~req[t].lockTaken
            /\ (req[t].pc = "Failed" /\ ~req[t].modelRun) => ~req[t].lockTaken)

\* one request is building its response after transcription while another
\* one holds the lock
C16_Witness ==
    \E t, u \in Threads :
        /\ t # u
        /\ req[t].pc = "Transcribed" /\ req[t].lockTaken
        /\ model_lock = u

\* C17: in the fallback resampler every index pair satisfies
\* 0 <= left <= len-1 and left <= right <= len-1 with
\* right = min(left+1, len-1), so the call never raises; an empty input
\* gives an empty buffer
C17_IndicesInRange ==
    rs.st = "done" =>
        /\ rs.ok
        /\ rs.len = 0 => (rs.out = 0 /\ rs.idx = <<>>)
        /\ rs.from # rs.to => Len(rs.idx) = rs.out
        /\ \A k \in DOMAIN rs.idx :
             LET l == rs.idx[k].left
                 r == rs.idx[k].right
             IN /\ 0 <= l /\ l <= rs.len - 1
                /\ l <= r /\ r <= rs.len - 1
                /\ r = IF l + 1 <= rs.len - 1 THEN l + 1 ELSE rs.len - 1

\* an upsampling call whose last output sample reads the last input sample
\* on both sides (the clamp of right is active)
C17_Witness ==
    /\ rs.st = "done" /\ rs.to > rs.from /\ rs.len > 1
    /\ \E k \in DOMAIN rs.idx :
         rs.idx[k].left = rs.len - 1 /\ rs.idx[k].right = rs.len - 1

\* C18: an installed handler can run in every state of the running
\* process, whoever holds or waits for the model lock, and when it runs it
\* removes the artifacts and ends the process without touching the lock or
\* any request
C18_ShutdownDoesNotWait ==
    /\ [](\A s \in Signals :
            (Running /\ s \in handlers) => ENABLED handle_sigterm(s))
    /\ [][(mainPc' = "exited" /\ mainPc # "exited") =>
            /\ model_lock' = model_lock
            /\ req' = req
            /\ ~sockExists'
            /\ pidfile => ~pidExists']_vars

\* the process exited on a signal while one request held the model lock and
\* another one was blocked on it
C18_Witness ==
    /\ mainPc = "exited"
    /\ \E t \in InSection : model_lock = t
    /\ AtLock # {}

\* C19: the lock is released on every exit from the critical section, also
\* when the model call or the iteration over the segments raises: whenever
\* no request is inside the section the lock is free
C19_LockReleased ==
    /\ [](InSection = {} => model_lock = 0)
    /\ [][\A t \in Threads :
            (t \in InSection /\ t \notin InSection') => model_lock' = 0]_vars

\* after a transcription failed inside the section a later request holds
\* the lock
C19_Witness ==
    \E t \in Threads : \E u \in InSection :
        /\ req[t].pc = "Failed"
        /\ req[t].resp = Unhandled("model")
        /\ model_lock = u

====
